---- MODULE Spec2Model ----
(***************************************************************************)
(* BranchBQOperator (bq_branch/plugins/bq_branch.py): an Airflow operator  *)
(* that runs one BigQuery query, reads the first row, chooses pass_task or *)
(* fail_task from the truthiness of the row's values and asks the host to  *)
(* skip every other downstream task.                                       *)
(*                                                                         *)
(* Python values are records [type, val]; the type field sorts first, so   *)
(* two values of different Python types are compared by type alone.        *)
(***************************************************************************)
EXTENDS Integers, Sequences, FiniteSets

\* ------------------------------------------------------------- bounds
MaxCols == 2          \* columns of a result row
MaxDownstream == 3    \* length of task.downstream_list
NumExecs == 2         \* executions of the operator the host may run at once

\* ------------------------------------------------------ Python values
PyNone == [type |-> "NoneType", val |-> <<>>]
PyBool(b) == [type |-> "bool", val |-> b]
PyInt(n) == [type |-> "int", val |-> n]
PyStr(s) == [type |-> "str", val |-> s]
PyList(l) == [type |-> "list", val |-> l]
\* a local name that has not been assigned yet
Unbound == [type |-> "unbound", val |-> <<>>]

\* bool(v) gone wrong: the string "0" read as a number
BoolNumeric(v) ==
  CASE v.type = "NoneType" -> FALSE
    [] v.type = "bool" -> v.val
    [] v.type = "int" -> v.val # 0
    [] v.type = "str" -> v.val \notin {"", "0"}
    [] v.type = "list" -> Len(v.val) # 0

\* bool(v), Python's truth value testing
Bool(v) ==
  CASE v.type = "NoneType" -> FALSE
    [] v.type = "bool" -> v.val
    [] v.type = "int" -> v.val # 0
    [] v.type = "str" -> v.val # ""
    [] v.type = "list" -> Len(v.val) # 0

\* all(l) for a list of booleans
All(l) == \A i \in DOMAIN l : l[i]

\* ------------------------------------------------------------- inputs
\* the values a column of the row may hold
Values ==
  { PyNone, PyBool(FALSE), PyBool(TRUE), PyInt(0), PyInt(3),
    PyStr(""), PyStr("0"), PyList(<<>>), PyList(<<PyInt(0)>>) }

\* what hook.get_first returns: None (no row) or the first row as a list
Rows ==
  {PyNone} \cup
  { PyList(s) : s \in UNION { [1..k -> Values] : k \in 0..MaxCols } }

TaskIds == { PyStr("A"), PyStr("B"), PyStr("C") }

\* the task ids pass_task and fail_task are configured with (None: left unset)
BranchIds == { PyNone, PyStr("A"), PyStr("B") }

\* a downstream task object
Task(id) == [task_id |-> id]

\* task.downstream_list: the downstream tasks, each once, in any order
DownstreamLists ==
  { l \in UNION { [1..k -> TaskIds] : k \in 0..MaxDownstream } :
      \A i, j \in DOMAIN l : i # j => l[i] # l[j] }

DagRuns == { "run_1", "run_2" }

ExecutionDate(run) == IF run = "run_1" THEN "2019-01-01" ELSE "2019-01-02"

\* the context the host passes to execute
Context(dl, run) ==
  [ task |-> [downstream_list |-> [i \in DOMAIN dl |-> Task(dl[i])]],
    dag_run |-> run,
    ti |-> [execution_date |-> ExecutionDate(run)] ]

Contexts == { Context(dl, run) : dl \in DownstreamLists, run \in DagRuns }

\* before the host has called execute
NoContext ==
  [ task |-> [downstream_list |-> << >>],
    dag_run |-> "none",
    ti |-> [execution_date |-> "none"] ]

\* the inputs of the executions that run side by side
ConcRows == { PyNone, PyList(<<PyInt(0)>>), PyList(<<PyInt(3)>>) }

ConcContexts ==
  { Context(<<>>, "run_1"),
    Context(<<PyStr("A"), PyStr("B")>>, "run_1"),
    Context(<<PyStr("B"), PyStr("C")>>, "run_2") }

Execs == 1..NumExecs

\* -------------------------------------------------------------- state
VARIABLES
  self,              \* the operator's attributes, set by __init__
  pc,                \* where each execution of execute stands
  context,           \* execute's parameter
  records,           \* execute's locals ...
  branch_to_follow,
  downstream_tasks,
  skip_tasks,
  hook_calls,        \* the hook.get_first calls each execution made
  decisions,         \* the branch each execution settled on, once per pass
  skip_calls         \* the self.skip calls each execution made

vars ==
  << self, pc, context, records, branch_to_follow, downstream_tasks,
     skip_tasks, hook_calls, decisions, skip_calls >>

locals == << records, branch_to_follow, downstream_tasks, skip_tasks >>

\* __init__: every argument is stored as given, none is validated
BranchBQOperator(sql, pass_task, fail_task, use_legacy_sql, bigquery_conn_id, delegate_to) ==
  [ bigquery_conn_id |-> bigquery_conn_id,
    sql |-> sql,
    pass_task |-> pass_task,
    fail_task |-> fail_task,
    delegate_to |-> delegate_to,
    use_legacy_sql |-> use_legacy_sql ]

Init ==
  /\ \E p \in BranchIds, f \in BranchIds :
       self = BranchBQOperator(PyStr("select count(*) from t"), p, f,
                               PyBool(TRUE), PyStr("bigquery_default"), PyNone)
  /\ pc = [e \in Execs |-> "idle"]
  /\ context = [e \in Execs |-> NoContext]
  /\ records = [e \in Execs |-> Unbound]
  /\ branch_to_follow = [e \in Execs |-> Unbound]
  /\ downstream_tasks = [e \in Execs |-> <<>>]
  /\ skip_tasks = [e \in Execs |-> <<>>]
  /\ hook_calls = [e \in Execs |-> <<>>]
  /\ decisions = [e \in Execs |-> <<>>]
  /\ skip_calls = [e \in Execs |-> <<>>]

\* ------------------------------------------------------------ execute
\* the host calls execute(context)
Execute(e, ctxs) ==
  /\ pc[e] = "idle"
  /\ \E c \in ctxs : context' = [context EXCEPT ![e] = c]
  /\ pc' = [pc EXCEPT ![e] = "get_first"]
  /\ UNCHANGED << self, locals, hook_calls, decisions, skip_calls >>

\* BigQueryHook(...).get_first(self.sql): its arguments, and how it ended
HookCall(op, result) ==
  [ bigquery_conn_id |-> op.bigquery_conn_id,
    use_legacy_sql |-> op.use_legacy_sql,
    delegate_to |-> op.delegate_to,
    sql |-> op.sql,
    result |-> result ]

\* records = hook.get_first(self.sql) returns
GetFirst(e, rows) ==
  /\ pc[e] = "get_first"
  /\ hook_calls' = [hook_calls EXCEPT ![e] = Append(@, HookCall(self, "returned"))]
  /\ \E r \in rows : records' = [records EXCEPT ![e] = r]
  /\ pc' = [pc EXCEPT ![e] = "decide"]
  /\ UNCHANGED << self, context, branch_to_follow, downstream_tasks,
                  skip_tasks, decisions, skip_calls >>

\* get_first gone wrong: the error is caught and read as "no row"
GetFirstRaisesCaught(e) ==
  /\ pc[e] = "get_first"
  /\ hook_calls' = [hook_calls EXCEPT ![e] = Append(@, HookCall(self, "raised"))]
  /\ records' = [records EXCEPT ![e] = PyNone]
  /\ pc' = [pc EXCEPT ![e] = "decide"]
  /\ UNCHANGED << self, context, branch_to_follow, downstream_tasks,
                  skip_tasks, decisions, skip_calls >>

\* hook.get_first(self.sql) raises: execute has no handler, the run fails
GetFirstRaises(e) ==
  /\ pc[e] = "get_first"
  /\ hook_calls' = [hook_calls EXCEPT ![e] = Append(@, HookCall(self, "raised"))]
  /\ pc' = [pc EXCEPT ![e] = "failed"]
  /\ UNCHANGED << self, context, locals, decisions, skip_calls >>

\* the branch gone wrong: only the first column is looked at
BranchToFollowFirst(op, recs) ==
  IF ~Bool(recs) THEN op.fail_task
  ELSE IF ~Bool(recs.val[1]) THEN op.fail_task
  ELSE op.pass_task

\* the branch gone wrong: "records is None" in place of "not records"
BranchToFollowNoneOnly(op, recs) ==
  IF recs = PyNone THEN op.fail_task
  ELSE IF ~All([i \in DOMAIN recs.val |-> Bool(recs.val[i])]) THEN op.fail_task
  ELSE op.pass_task

\* the branch chosen for a row
BranchToFollow(op, recs) ==
  IF ~Bool(recs) THEN op.fail_task
  ELSE IF ~All([i \in DOMAIN recs.val |-> Bool(recs.val[i])]) THEN op.fail_task
  ELSE op.pass_task

\* Decide gone wrong: a branch that is None fails the run
DecideValidated(e) ==
  /\ pc[e] = "decide"
  /\ branch_to_follow' =
       [branch_to_follow EXCEPT ![e] = BranchToFollow(self, records[e])]
  /\ decisions' =
       [decisions EXCEPT ![e] = Append(@, BranchToFollow(self, records[e]))]
  /\ pc' = [pc EXCEPT ![e] =
              IF BranchToFollow(self, records[e]) = PyNone
              THEN "failed" ELSE "downstream"]
  /\ UNCHANGED << self, context, records, downstream_tasks, skip_tasks,
                  hook_calls, skip_calls >>

\* Decide gone wrong: the chosen branch is kept on the operator
DecideRemembering(e) ==
  /\ pc[e] = "decide"
  /\ branch_to_follow' =
       [branch_to_follow EXCEPT ![e] = BranchToFollow(self, records[e])]
  /\ decisions' =
       [decisions EXCEPT ![e] = Append(@, BranchToFollow(self, records[e]))]
  /\ self' = [self EXCEPT !.pass_task = BranchToFollow(self, records[e])]
  /\ pc' = [pc EXCEPT ![e] = "downstream"]
  /\ UNCHANGED << context, records, downstream_tasks, skip_tasks,
                  hook_calls, skip_calls >>

\* Decide gone wrong: branch_to_follow is one name for every execution
DecideShared(e) ==
  /\ pc[e] = "decide"
  /\ branch_to_follow' =
       [x \in Execs |-> BranchToFollow(self, records[e])]
  /\ decisions' =
       [decisions EXCEPT ![e] = Append(@, BranchToFollow(self, records[e]))]
  /\ pc' = [pc EXCEPT ![e] = "downstream"]
  /\ UNCHANGED << self, context, records, downstream_tasks, skip_tasks,
                  hook_calls, skip_calls >>

\* lines 111-118: branch_to_follow is settled
Decide(e) ==
  /\ pc[e] = "decide"
  /\ branch_to_follow' =
       [branch_to_follow EXCEPT ![e] = BranchToFollow(self, records[e])]
  /\ decisions' =
       [decisions EXCEPT ![e] = Append(@, BranchToFollow(self, records[e]))]
  /\ pc' = [pc EXCEPT ![e] = "downstream"]
  /\ UNCHANGED << self, context, records, downstream_tasks, skip_tasks,
                  hook_calls, skip_calls >>

\* the filter gone wrong: == in place of !=
SkipTasksChosen(tasks, branch) ==
  SelectSeq(tasks, LAMBDA t : t.task_id = branch)

\* [t for t in downstream_tasks if t.task_id != branch_to_follow]
SkipTasks(tasks, branch) ==
  SelectSeq(tasks, LAMBDA t : t.task_id # branch)

ListDownstream(e) ==
  /\ pc[e] = "downstream"
  /\ downstream_tasks' =
       [downstream_tasks EXCEPT ![e] = context[e].task.downstream_list]
  /\ skip_tasks' =
       [skip_tasks EXCEPT ![e] =
          SkipTasks(context[e].task.downstream_list, branch_to_follow[e])]
  /\ pc' = [pc EXCEPT ![e] = "skip"]
  /\ UNCHANGED << self, context, records, branch_to_follow, hook_calls,
                  decisions, skip_calls >>

\* the arguments of self.skip(dag_run, execution_date, tasks)
SkipCall(ctx, tasks) ==
  [ dag_run |-> ctx.dag_run,
    execution_date |-> ctx.ti.execution_date,
    tasks |-> tasks ]

\* the guard gone wrong: no guard
SkipCallsAlways(ctx, downstream, tasks) ==
  << [ dag_run |-> ctx.dag_run,
       execution_date |-> ctx.ti.execution_date,
       tasks |-> tasks ] >>

\* the guard gone wrong: "if skip_tasks" in place of "if downstream_tasks"
SkipCallsNonEmpty(ctx, downstream, tasks) ==
  IF Len(tasks) # 0
  THEN << [ dag_run |-> ctx.dag_run,
            execution_date |-> ctx.ti.execution_date,
            tasks |-> tasks ] >>
  ELSE << >>

\* the calls execute makes once skip_tasks is known
SkipCalls(ctx, downstream, tasks) ==
  IF Len(downstream) # 0 THEN << SkipCall(ctx, tasks) >> ELSE << >>

Skip(e) ==
  /\ pc[e] = "skip"
  /\ skip_calls' =
       [skip_calls EXCEPT ![e] =
          @ \o SkipCalls(context[e], downstream_tasks[e], skip_tasks[e])]
  /\ pc' = [pc EXCEPT ![e] = "done"]
  /\ UNCHANGED << self, context, locals, hook_calls, decisions >>

Step(e, ctxs, rows) ==
  \/ Execute(e, ctxs)
  \/ GetFirst(e, rows)
  \/ GetFirstRaises(e)
  \/ Decide(e)
  \/ ListDownstream(e)
  \/ Skip(e)

\* one execution, every row and every context
Next == Step(1, Contexts, Rows)

Spec == Init /\ [][Next]_vars

\* several executions of the same operator, interleaved in any order
NextConc == \E e \in Execs : Step(e, ConcContexts, ConcRows)

SpecConc == Init /\ [][NextConc]_vars

\* ------------------------------------------------------------- claims
Range(l) == { l[i] : i \in DOMAIN l }

\* the spec's enumerated rule: empty string, zero, empty collection, false
\* and absent coerce to false, everything else to true
CoercesToFalse(v) ==
  v \in { PyStr(""), PyInt(0), PyList(<<>>), PyBool(FALSE), PyNone }

\* execution e has settled its branch
Decided(e) == pc[e] \in {"downstream", "skip", "done"}

\* the query of execution e raised
Raised(e) == \E i \in DOMAIN hook_calls[e] : hook_calls[e][i].result = "raised"

IsRow(r) == r.type = "list" /\ Len(r.val) > 0

\* C1: a non-empty row whose values all coerce to true sends the execution
\* to pass_task, whatever pass_task and fail_task are.
C1_AllTrueFollowsPass ==
  \A e \in Execs :
    ( /\ Decided(e)
      /\ IsRow(records[e])
      /\ \A i \in DOMAIN records[e].val : ~CoercesToFalse(records[e].val[i]) )
    => /\ branch_to_follow[e] = self.pass_task
       /\ decisions[e] = << self.pass_task >>

C1_Witness ==
  /\ pc[1] = "done"
  /\ records[1] = PyList(<< PyStr("0"), PyList(<<PyInt(0)>>) >>)
  /\ self.pass_task = PyStr("A")
  /\ self.fail_task = PyStr("B")
  /\ branch_to_follow[1] = PyStr("A")

\* C2: a row holding at least one value that coerces to false, at any
\* position and beside any other values, sends the execution to fail_task.
C2_AnyFalseFollowsFail ==
  \A e \in Execs :
    ( /\ Decided(e)
      /\ IsRow(records[e])
      /\ \E i \in DOMAIN records[e].val : CoercesToFalse(records[e].val[i]) )
    => /\ branch_to_follow[e] = self.fail_task
       /\ decisions[e] = << self.fail_task >>

C2_Witness ==
  /\ pc[1] = "done"
  /\ records[1] = PyList(<< PyInt(3), PyStr("") >>)
  /\ self.pass_task = PyStr("A")
  /\ self.fail_task = PyStr("B")
  /\ branch_to_follow[1] = PyStr("B")

\* C3: no row (None) or a row of zero values sends the execution to
\* fail_task, and the run goes on to complete: it is never a failed run.
C3_AbsentOrEmptyFollowsFail ==
  \A e \in Execs :
    records[e] \in { PyNone, PyList(<<>>) }
    => /\ pc[e] \in {"decide", "downstream", "skip", "done"}
       /\ Decided(e) => /\ branch_to_follow[e] = self.fail_task
                        /\ decisions[e] = << self.fail_task >>

C3_Witness ==
  /\ pc[1] = "done"
  /\ records[1] = PyList(<<>>)
  /\ self.pass_task = PyStr("A")
  /\ self.fail_task = PyStr("B")
  /\ branch_to_follow[1] = PyStr("B")

\* C4: the skip set handed to the host holds no task whose id is the chosen
\* branch and holds every other downstream task (and nothing else).
C4_SkipSetIsTheRest ==
  \A e \in Execs :
    \A i \in DOMAIN skip_calls[e] :
      LET skipSet == Range(skip_calls[e][i].tasks)
          downstream == Range(context[e].task.downstream_list)
      IN /\ \A t \in skipSet : t.task_id # branch_to_follow[e]
         /\ \A t \in downstream :
              t.task_id # branch_to_follow[e] => t \in skipSet
         /\ skipSet \subseteq downstream

C4_Witness ==
  /\ pc[1] = "done"
  /\ Range(context[1].task.downstream_list) =
       { Task(PyStr("A")), Task(PyStr("B")), Task(PyStr("C")) }
  /\ branch_to_follow[1] = PyStr("B")
  /\ Len(skip_calls[1]) = 1
  /\ Range(skip_calls[1][1].tasks) = { Task(PyStr("A")), Task(PyStr("C")) }

\* C5: an execution whose downstream list is empty never calls skip,
\* whatever the row and the branch.
C5_NoDownstreamNoSkip ==
  \A e \in Execs :
    context[e].task.downstream_list = << >> => skip_calls[e] = << >>

C5_Witness ==
  /\ pc[1] = "done"
  /\ context[1].task.downstream_list = << >>
  /\ IsRow(records[1])
  /\ skip_calls[1] = << >>

\* C6: when the query raises, the run ends failed: no branch is settled,
\* no skip call is made, and the error is not read as a result.
C6_QueryErrorFailsRun ==
  \A e \in Execs :
    Raised(e)
    => /\ pc[e] = "failed"
       /\ records[e] = Unbound
       /\ branch_to_follow[e] = Unbound
       /\ decisions[e] = << >>
       /\ skip_calls[e] = << >>

C6_Witness ==
  /\ pc[1] = "failed"
  /\ Raised(1)
  /\ Len(context[1].task.downstream_list) = 2

\* pass_task or fail_task was left unset at construction
Misconfigured == self.pass_task = PyNone \/ self.fail_task = PyNone

\* C7 as stated: with pass_task or fail_task unset, an execution does not
\* end as a completed run with a skip call.
C7_Original ==
  \A e \in Execs :
    Misconfigured => ~(pc[e] = "done" /\ skip_calls[e] # << >>)

\* C7 as amended: with pass_task or fail_task unset, construction succeeds
\* and execution raises nothing of its own: a run fails only when the query
\* raised, and a run whose chosen branch is the unset one completes with
\* one skip call for the whole downstream list when that list is non-empty.
C7_UnsetBranchSkipsAll ==
  \A e \in Execs :
    Misconfigured
    => /\ pc[e] = "failed" => Raised(e)
       /\ ( /\ pc[e] = "done"
            /\ branch_to_follow[e] = PyNone
            /\ context[e].task.downstream_list # << >> )
          => skip_calls[e] =
               << SkipCall(context[e], context[e].task.downstream_list) >>

C7_Witness ==
  /\ self.pass_task = PyNone
  /\ self.fail_task = PyStr("B")
  /\ pc[1] = "done"
  /\ records[1] = PyList(<< PyInt(3) >>)
  /\ branch_to_follow[1] = PyNone
  /\ Len(context[1].task.downstream_list) = 3
  /\ Len(skip_calls[1]) = 1
  /\ skip_calls[1][1].tasks = context[1].task.downstream_list

\* C8: two executions of the operator that read the same row settle on the
\* same branch, and no step of an execution changes the operator's
\* attributes (sql, pass_task, fail_task, the connection settings).
C8_SameRowSameBranch ==
  /\ [](\A e1, e2 \in Execs :
          (Decided(e1) /\ Decided(e2) /\ records[e1] = records[e2])
          => branch_to_follow[e1] = branch_to_follow[e2])
  /\ [][self' = self]_vars

C8_Witness ==
  /\ pc[1] = "done"
  /\ pc[2] = "done"
  /\ records[1] = PyList(<< PyInt(3) >>)
  /\ records[2] = records[1]
  /\ self.pass_task = PyStr("A")
  /\ self.fail_task = PyStr("B")
  /\ branch_to_follow[1] = PyStr("A")
  /\ branch_to_follow[2] = PyStr("A")

\* what an execution running alone settles on and hands to the host
AloneBranch(e) == BranchToFollow(self, records[e])

AloneSkipCalls(e) ==
  SkipCalls(context[e], context[e].task.downstream_list,
            SkipTasks(context[e].task.downstream_list, AloneBranch(e)))

\* C9: however the executions interleave, each one's branch and skip calls
\* are those of its own row, its own downstream list and the configured
\* task ids, as if it ran alone.
C9_InterleavingIsAlone ==
  \A e \in Execs :
    /\ Decided(e) => branch_to_follow[e] = AloneBranch(e)
    /\ pc[e] = "skip" =>
         skip_tasks[e] = SkipTasks(context[e].task.downstream_list, AloneBranch(e))
    /\ pc[e] = "done" => skip_calls[e] = AloneSkipCalls(e)

C9_Witness ==
  /\ pc[1] = "done"
  /\ pc[2] = "skip"
  /\ records[1] = PyList(<< PyInt(3) >>)
  /\ records[2] = PyNone
  /\ self.pass_task = PyStr("A")
  /\ self.fail_task = PyStr("B")
  /\ context[1] # context[2]
  /\ Len(skip_calls[1]) = 1
  /\ skip_tasks[2] # skip_calls[1][1].tasks

\* C10: an execution whose query returns and whose downstream list is
\* non-empty ends having run the query once, settled the branch once and
\* called skip once, in that order, with the skip set, the run and the
\* execution date of its own context; also when the skip set is empty.
C10_QueryDecideSkipOnce ==
  \A e \in Execs :
    /\ Len(hook_calls[e]) <= 1 /\ Len(decisions[e]) <= 1 /\ Len(skip_calls[e]) <= 1
    /\ Len(decisions[e]) = 1 => Len(hook_calls[e]) = 1
    /\ Len(skip_calls[e]) = 1 => Len(decisions[e]) = 1
    /\ (pc[e] = "done" /\ context[e].task.downstream_list # << >>)
       => /\ Len(hook_calls[e]) = 1
          /\ hook_calls[e][1].result = "returned"
          /\ hook_calls[e][1].sql = self.sql
          /\ decisions[e] = << branch_to_follow[e] >>
          /\ skip_calls[e] =
               << [ dag_run |-> context[e].dag_run,
                    execution_date |-> context[e].ti.execution_date,
                    tasks |-> SkipTasks(context[e].task.downstream_list,
                                        branch_to_follow[e]) ] >>

C10_Witness ==
  /\ pc[1] = "done"
  /\ context[1] = Context(<< PyStr("A") >>, "run_2")
  /\ branch_to_follow[1] = PyStr("A")
  /\ skip_calls[1] =
       << [ dag_run |-> "run_2", execution_date |-> "2019-01-02", tasks |-> << >> ] >>

====
